---- MODULE Spec2Model ----
\* Model of utils/datasets.py (sampling of image pairs) and utils/saveload.py
\* (resolution of weight files).  Strings are sequences of one-character
\* strings, so that the filename parsing of the code is computed, not assumed.
EXTENDS Integers, Sequences, FiniteSets, TLC

VARIABLES
    dataset,            \* argument dataset_filepath: which of DatasetList it is
    nb_max,             \* argument nb_max
    pairs_of_same_imgs, \* argument pairs_of_same_imgs
    ignore_order,       \* argument ignore_order
    seed,               \* argument seed of the running / last call (None or a seed)
    verbose,            \* argument verbose of the running / last call
    pc,                 \* position of the call: idle, pos, neg, done, raised
    rng,                \* state of the process-global random generator
    state,              \* local 'state': generator state saved by a seeded call
    tape,               \* outputs the seeded generator has produced so far
    pairs,              \* local / returned: sequence of ImagePair
    added,              \* local: set of keys already added
    nb_added,           \* local counter
    rng_before,         \* generator state at the moment of the call
    first,              \* what the first seeded call that returned did
    printed,            \* number of lines written by verbose output in this call
    listing,            \* os.listdir(save_weights_dir): set of <<name, is a file>>
    previous_identifier,\* argument previous_identifier of load_weights
    lw_pc,              \* load_weights: idle, returned, raised
    lw_result,          \* value returned by load_weights
    loaded,             \* paths passed to model.load_weights, in order
    csv_epochs,         \* the history file: the epoch of each row, in file order
    lpm_pc,             \* load_previous_model: idle, history, plot, returned, ...
    history,            \* local 'history' of load_previous_model
    plotted,            \* calls of la_plotter.add_values, in order
    lpm_result,         \* value returned by load_previous_model
    image_pairs,        \* argument image_pairs of image_pairs_to_xy
    xy_pc,              \* image_pairs_to_xy: idle, returned
    xy_X,               \* returned array X, one entry per pair
    xy_y                \* returned array y, one entry per pair

sampler_vars == <<dataset, nb_max, pairs_of_same_imgs, ignore_order, seed,
                  verbose, pc, rng, state, tape, pairs, added, nb_added,
                  rng_before, first, printed>>

loader_vars == <<listing, previous_identifier, lw_pc, lw_result, loaded>>

resume_vars == <<csv_epochs, lpm_pc, history, plotted, lpm_result>>

xy_vars == <<image_pairs, xy_pc, xy_X, xy_y>>

vars == <<sampler_vars, loader_vars, resume_vars, xy_vars>>

None == "None"

\* ------------------------------------------------------------------ bounds
MaxNb == 4      \* nb_max ranges over 0..MaxNb
MaxDraws == 17  \* a seeded generator is followed for at most MaxDraws outputs
MaxNbSeed == 3  \* nb_max ranges over 0..MaxNbSeed in seeded calls
MaxNbExcl == 2  \* nb_max ranges over 0..MaxNbExcl when images are excluded
MaxNbLive == 3  \* nb_max ranges over 0..MaxNbLive where fair choice is followed
MaxPairs == 3   \* image_pairs_to_xy is given at most MaxPairs pairs
Period == 2     \* number of states of the unseeded generator that are told apart

\* ----------------------------------------------------------------- strings
Digits == {"0", "1", "2", "3", "4", "5", "6", "7", "8", "9"}

\* code point of the characters the model uses (sorted() compares by code point)
CharCode(c) ==
    CASE c = "$" -> 36  [] c = "." -> 46  [] c = "/" -> 47
      [] c = "0" -> 48  [] c = "1" -> 49  [] c = "2" -> 50  [] c = "3" -> 51
      [] c = "4" -> 52  [] c = "5" -> 53  [] c = "6" -> 54  [] c = "7" -> 55
      [] c = "8" -> 56  [] c = "9" -> 57
      [] c = "A" -> 65  [] c = "C" -> 67  [] c = "S" -> 83
      [] c = "_" -> 95
      [] c = "a" -> 97  [] c = "b" -> 98  [] c = "d" -> 100 [] c = "e" -> 101
      [] c = "g" -> 103 [] c = "h" -> 104 [] c = "i" -> 105 [] c = "l" -> 108
      [] c = "m" -> 109 [] c = "n" -> 110 [] c = "p" -> 112 [] c = "s" -> 115
      [] c = "t" -> 116 [] c = "v" -> 118 [] c = "w" -> 119 [] c = "x" -> 120

Min(a, b) == IF a < b THEN a ELSE b

\* a < b for Python strings
StrLess(a, b) ==
    \E k \in 1..(Min(Len(a), Len(b)) + 1) :
        /\ \A i \in 1..(k - 1) : a[i] = b[i]
        /\ \/ k > Len(a) /\ k <= Len(b)
           \/ k <= Len(a) /\ k <= Len(b) /\ CharCode(a[k]) < CharCode(b[k])

\* str.rfind(c) + 1: the last position of c, 0 when c does not occur
rfind(s, c) ==
    IF \E i \in 1..Len(s) : s[i] = c
    THEN CHOOSE i \in 1..Len(s) : s[i] = c /\ \A j \in (i + 1)..Len(s) : s[j] # c
    ELSE 0

\* s[a:b] of Python for 0 <= a and -1 <= b (b = -1 drops the last character)
Slice(s, a, b) ==
    LET e == IF b < 0 THEN Len(s) + b ELSE Min(b, Len(s))
    IN  IF a >= e THEN <<>> ELSE SubSeq(s, a + 1, e)

startswith(s, p) == Len(p) <= Len(s) /\ SubSeq(s, 1, Len(p)) = p
endswith(s, p) == Len(p) <= Len(s) /\ SubSeq(s, Len(s) - Len(p) + 1, Len(s)) = p

\* re.sub("[^0-9]", "", s)
StripNonDigits(s) == SelectSeq(s, LAMBDA c : c \in Digits)

RECURSIVE ToInt(_)
\* int(s) of a non-empty string of digits
ToInt(s) ==
    IF Len(s) = 0 THEN 0
    ELSE 10 * ToInt(SubSeq(s, 1, Len(s) - 1)) + (CharCode(s[Len(s)]) - 48)

Range(s) == {s[i] : i \in 1..Len(s)}

\* ------------------------------------------------------- ImageFile, ImagePair
\* os.path.join(directory, name)
PathJoin(directory, name) == directory \o <<"/">> \o name

filepath_to_person_name(filepath) ==
    LET last_slash == rfind(filepath, "/") - 1
    IN  Slice(filepath, last_slash + 1, rfind(filepath, "_") - 1)

filepath_to_number(filepath) ==
    LET fname == Slice(filepath, rfind(filepath, "/"), Len(filepath))
    IN  ToInt(StripNonDigits(fname))

ImageFile(directory, name) ==
    LET fp == PathJoin(directory, name)
    IN  [filepath |-> fp, filename |-> name,
         person |-> filepath_to_person_name(fp),
         number |-> filepath_to_number(fp)]

\* a faulty ImagePair: the two flags exchanged
ImagePairSwapped(image1, image2) ==
    [image1 |-> image1, image2 |-> image2,
     same_person |-> (image1.filepath = image2.filepath),
     same_image |-> (image1.person = image2.person)]

ImagePair(image1, image2) ==
    [image1 |-> image1, image2 |-> image2,
     same_person |-> (image1.person = image2.person),
     same_image |-> (image1.filepath = image2.filepath)]

Sep == <<"$", "$", "$">>

\* a faulty get_key: ignore_order has no effect
get_key_ordered(pair, ign) ==
    pair.image1.filepath \o Sep \o pair.image2.filepath

get_key(pair, ign) ==
    LET fp1 == pair.image1.filepath
        fp2 == pair.image2.filepath
    IN  IF ign
        THEN IF StrLess(fp2, fp1) THEN fp2 \o Sep \o fp1 ELSE fp1 \o Sep \o fp2
        ELSE fp1 \o Sep \o fp2

\* ------------------------------------------------------------ get_image_files
Exts == {<<"p", "g", "m">>, <<"p", "p", "m">>, <<"j", "p", "g">>,
         <<"j", "p", "e", "g">>, <<"p", "n", "g">>, <<"b", "m", "p">>,
         <<"t", "i", "f", "f">>}

\* re.match(r"^.*_[0-9]+\.(pgm|ppm|jpg|jpeg|png|bmp|tiff)$", name)
IsImageName(name) ==
    \E i \in 1..Len(name) : \E j \in (i + 2)..Len(name) :
        /\ name[i] = "_"
        /\ name[j] = "."
        /\ \A k \in (i + 1)..(j - 1) : name[k] \in Digits
        /\ SubSeq(name, j + 1, Len(name)) \in Exts

\* order of sorted(images, key=filename); the sort is stable, and os.walk
\* visits a directory before its subdirectories
ImageBefore(a, b) ==
    \/ StrLess(a.filename, b.filename)
    \/ a.filename = b.filename /\ StrLess(a.filepath, b.filepath)

RECURSIVE SortImages(_)
SortImages(S) ==
    IF S = {} THEN <<>>
    ELSE LET m == CHOOSE x \in S : \A y \in S \ {x} : ImageBefore(x, y)
         IN  <<m>> \o SortImages(S \ {m})

\* a faulty get_image_files: exclude_images has no effect
get_image_files_keep_excluded(fs, excl) ==
    SortImages({ImageFile(f[1], f[2]) : f \in {g \in fs : IsImageName(g[2])}})

get_image_files(fs, excl) ==
    LET exclude_filenames == {im.filename : im \in excl}
    IN  SortImages({ImageFile(f[1], f[2]) :
                      f \in {g \in fs : /\ IsImageName(g[2])
                                        /\ g[2] \notin exclude_filenames}})

\* ------------------------------------------------------------- the generator
\* The generator state is [stream, pos]: the stream it runs on (the unseeded
\* process stream, or the stream of a seed) and the number of outputs taken
\* from it.  The outputs of the unseeded stream are free; the outputs of a
\* seeded stream are free the first time and then fixed (tape).
Seeds == {"seed1"}
Global == "global"

\* taking k outputs: a seeded stream is k outputs further; the unseeded
\* generator has, for k > 0, moved to another of the states that are told apart
Advance(r, k) ==
    IF r.stream = Global
    THEN [r EXCEPT !.pos = (r.pos + (IF k = 0 THEN 0 ELSE 1)) % Period]
    ELSE [r EXCEPT !.pos = r.pos + k]

CanDraw(r, k) == r.stream = Global \/ r.pos + k <= MaxDraws

\* random.seed(seed)
Seeded(sd) == [stream |-> sd, pos |-> 0]

\* the indices randbelow(n) may return for the output taken off outputs after
\* the current state (1-based index into a sequence of n elements)
Choice(n, off) ==
    LET p == rng.pos + off + 1
    IN  IF rng.stream # Global /\ p <= Len(tape) /\ tape[p][1] = n
        THEN {tape[p][2]}
        ELSE 1..n

\* the tape after the outputs ds (a sequence of <<n, index>>) were taken
Record(ds) ==
    IF rng.stream = Global THEN tape
    ELSE LET last == rng.pos + Len(ds)
             len == IF last > Len(tape) THEN last ELSE Len(tape)
         IN  [i \in 1..len |->
                 IF i > rng.pos /\ i <= last THEN ds[i - rng.pos] ELSE tape[i]]

\* ------------------------------------------------------------------ inputs
Dir == <<"d">>
SubDir == <<"d", "/", "s">>
AS1 == <<"A", "_", "S", "_", "1", ".", "p", "g", "m">>
AS2 == <<"A", "_", "S", "_", "2", ".", "p", "g", "m">>
AS3 == <<"A", "_", "S", "_", "3", ".", "p", "g", "m">>
AC1 == <<"A", "_", "C", "_", "1", ".", "p", "g", "m">>
Txt == <<"n", "_", "1", ".", "t", "x", "t">>

\* two images of person A_S (one in a subdirectory), one of person A_C, and a
\* file that is no image
Pool3 == {<<Dir, AS1>>, <<SubDir, AS2>>, <<Dir, AC1>>, <<Dir, Txt>>}
Pool4 == Pool3 \cup {<<Dir, AS3>>}

\* The dataset directories and exclusion lists a call is made with: whether
\* the directory exists, the files below it as <<directory, name>>, the list
\* of prior pairs to exclude, and the values of nb_max tried with it.
DatasetList ==
    << [exists |-> TRUE, files |-> Pool3, exclude_images |-> <<>>,
        nbs |-> 0..MaxNb],
       [exists |-> TRUE, files |-> Pool4, nbs |-> 0..MaxNbExcl,
        exclude_images |->
            <<ImagePair(ImageFile(Dir, AS3), ImageFile(Dir, AS3))>>],
       [exists |-> TRUE, files |-> Pool3, nbs |-> 0..MaxNbExcl,
        exclude_images |->
            <<ImagePair(ImageFile(SubDir, AS2), ImageFile(SubDir, AS2))>>],
       [exists |-> TRUE, files |-> Pool3, nbs |-> 0..MaxNbExcl,
        exclude_images |->
            <<ImagePair(ImageFile(SubDir, AS2), ImageFile(Dir, AC1))>>],
       [exists |-> FALSE, files |-> {}, nbs |-> 0..MaxNbExcl,
        exclude_images |-> <<>>] >>

dataset_exists == DatasetList[dataset].exists
files == DatasetList[dataset].files
exclude_images == DatasetList[dataset].exclude_images

\* --------------------------------------------------- get_image_pairs: set-up
ExcludedImages(excl) ==
    {excl[i].image1 : i \in 1..Len(excl)} \cup {excl[i].image2 : i \in 1..Len(excl)}

GroupByPerson(images) ==
    [p \in {images[i].person : i \in 1..Len(images)} |->
        SelectSeq(images, LAMBDA im : im.person = p)]

RECURSIVE NamesFrom(_, _)
\* keys of images_by_person in insertion order
NamesFrom(images, i) ==
    IF i > Len(images) THEN <<>>
    ELSE IF \E j \in 1..(i - 1) : images[j].person = images[i].person
         THEN NamesFrom(images, i + 1)
         ELSE <<images[i].person>> \o NamesFrom(images, i + 1)

\* lines 305-310
NamesGte2(nms, ibp) == SelectSeq(nms, LAMBDA p : Len(ibp[p]) >= 2)

\* lines 250-256, per dataset
ImagesOf ==
    [d \in DOMAIN DatasetList |->
        IF DatasetList[d].exists
        THEN get_image_files(DatasetList[d].files,
                             ExcludedImages(DatasetList[d].exclude_images))
        ELSE <<>>]

\* lines 260-262, per dataset
ImagesByPersonOf == [d \in DOMAIN DatasetList |-> GroupByPerson(ImagesOf[d])]

NamesOf == [d \in DOMAIN DatasetList |-> NamesFrom(ImagesOf[d], 1)]

NamesGte2Of ==
    [d \in DOMAIN DatasetList |-> NamesGte2(NamesOf[d], ImagesByPersonOf[d])]

\* the locals of the running call
images_by_person == ImagesByPersonOf[dataset]
names == NamesOf[dataset]
names_gte2 == NamesGte2Of[dataset]

\* lines printed by verbose mode before sampling (282-298, 322) and after (410-415)
VerboseLinesBefore == 12
VerboseLinesAfter == 3

\* the local 'state' of an unseeded call: never assigned
Unset == [stream |-> "unset", pos |-> 0]

\* a faulty seeding: the state is saved but random.seed is not called
SetSeedIgnored(sd) == [saved |-> IF sd = None THEN Unset ELSE rng, now |-> rng]

\* lines 239-241
SetSeed(sd) ==
    [saved |-> IF sd = None THEN Unset ELSE rng,
     now |-> IF sd = None THEN rng ELSE Seeded(sd)]

Scenario == <<dataset, nb_max, pairs_of_same_imgs, ignore_order>>

Call(sd, vb) ==
    /\ pc \in {"idle", "done", "raised"}
    /\ seed' = sd
    /\ verbose' = vb
    /\ rng_before' = rng
    /\ state' = SetSeed(sd).saved
    /\ rng' = SetSeed(sd).now
    /\ pairs' = <<>>
    /\ added' = {}
    /\ nb_added' = 0
    /\ IF ~dataset_exists
       THEN /\ pc' = "raised"
            /\ printed' = 0
       ELSE /\ pc' = "pos"
            /\ printed' = IF vb THEN VerboseLinesBefore ELSE 0
    /\ UNCHANGED <<Scenario, tape, first>>
    /\ UNCHANGED <<loader_vars, resume_vars, xy_vars>>

CallUnseeded == \E vb \in BOOLEAN : Call(None, vb)

CallSeeded == \E sd \in Seeds, vb \in BOOLEAN : Call(sd, vb)

\* ------------------------------------------- get_image_pairs: positive phase
\* a faulty half: rounded up
HalfUp(n) == (n + 1) \div 2

\* nb_max // 2
Half(n) == n \div 2

\* a faulty choice of image2: image1 is always a candidate
SecondImageAny(imgs, image1) == imgs

\* lines 359-364
SecondImage(imgs, image1) ==
    IF pairs_of_same_imgs THEN imgs
    ELSE SelectSeq(imgs, LAMBDA image : image # image1)

\* a faulty test: inverted
AcceptSeen(key) == key \in added

\* line 371 / 398
Accept(key) == key \notin added

\* lines 371-377 / 398-403, after the draws ds produced pair
Collect(pair, ds) ==
    LET key == get_key(pair, ignore_order)
    IN  /\ IF Accept(key)
           THEN /\ pairs' = Append(pairs, pair)
                /\ nb_added' = nb_added + 1
                /\ added' = added \cup {key}
           ELSE UNCHANGED <<pairs, nb_added, added>>
        /\ rng' = Advance(rng, Len(ds))
        /\ tape' = Record(ds)
        /\ UNCHANGED <<Scenario, seed, verbose, pc, state, rng_before, first,
                       printed>>
        /\ UNCHANGED <<loader_vars, resume_vars, xy_vars>>

Raise(drawn) ==
    /\ pc' = "raised"
    /\ rng' = Advance(rng, Len(drawn))
    /\ tape' = Record(drawn)
    /\ UNCHANGED <<Scenario, seed, verbose, state, pairs, added, nb_added,
                   rng_before, first, printed>>
    /\ UNCHANGED <<loader_vars, resume_vars, xy_vars>>

\* one iteration of the loop of line 355
PosIter ==
    /\ pc = "pos"
    /\ nb_added < Half(nb_max)
    /\ names_gte2 # <<>>
    /\ CanDraw(rng, 3)
    /\ \E i \in Choice(Len(names_gte2), 0) :
         LET imgs == images_by_person[names_gte2[i]]
         IN  \E j \in Choice(Len(imgs), 1) :
               LET image1 == imgs[j]
                   seconds == SecondImage(imgs, image1)
               IN  \E k \in Choice(Len(seconds), 2) :
                     Collect(ImagePair(image1, seconds[k]),
                             <<<<Len(names_gte2), i>>, <<Len(imgs), j>>,
                               <<Len(seconds), k>>>>)

\* random.choice(names_gte2) on an empty list: IndexError
PosRaise ==
    /\ pc = "pos"
    /\ nb_added < Half(nb_max)
    /\ names_gte2 = <<>>
    /\ Raise(<<>>)

\* the loop condition of line 355 fails
PosDone ==
    /\ pc = "pos"
    /\ ~(nb_added < Half(nb_max))
    /\ pc' = "neg"
    /\ UNCHANGED <<Scenario, seed, verbose, rng, state, tape, pairs, added,
                   nb_added, rng_before, first, printed>>
    /\ UNCHANGED <<loader_vars, resume_vars, xy_vars>>

\* ------------------------------------------- get_image_pairs: negative phase
OtherNames(person1) == SelectSeq(names, LAMBDA person : person # person1)

\* one iteration of the loop of line 382
NegIter ==
    /\ pc = "neg"
    /\ nb_added < nb_max
    /\ Len(names) >= 2
    /\ CanDraw(rng, 4)
    /\ \E i \in Choice(Len(names), 0) :
         LET person1 == names[i]
             others == OtherNames(person1)
         IN  \E j \in Choice(Len(others), 1) :
               LET imgs1 == images_by_person[person1]
                   imgs2 == images_by_person[others[j]]
               IN  \E k \in Choice(Len(imgs1), 2) :
                     \E l \in Choice(Len(imgs2), 3) :
                       Collect(ImagePair(imgs1[k], imgs2[l]),
                               <<<<Len(names), i>>, <<Len(others), j>>,
                                 <<Len(imgs1), k>>, <<Len(imgs2), l>>>>)

\* random.choice on an empty list: of names (no output taken), or of the
\* names other than person1 (one output taken)
NegRaise ==
    /\ pc = "neg"
    /\ nb_added < nb_max
    /\ Len(names) < 2
    /\ IF names = <<>>
       THEN Raise(<<>>)
       ELSE /\ CanDraw(rng, 1)
            /\ \E i \in Choice(Len(names), 0) : Raise(<<<<Len(names), i>>>>)

\* ------------------------------------------- get_image_pairs: shuffle, return
Swap(x, i, j) == [x EXCEPT ![i] = x[j], ![j] = x[i]]

RECURSIVE ApplyShuffle(_, _, _)
\* random.shuffle: for i in reversed(range(1, len(x))): j = randbelow(i+1); swap
ApplyShuffle(x, js, t) ==
    IF t > Len(x) - 1 THEN x
    ELSE ApplyShuffle(Swap(x, Len(x) - t + 1, js[t]), js, t + 1)

ShuffleChoices(n) ==
    {js \in [1..(n - 1) -> 1..n] : \A t \in 1..(n - 1) : js[t] \in Choice(n - t + 1, t - 1)}

\* a faulty return: random.setstate is not called
RestoreNothing(r) == r

\* lines 418-419
Restore(r) == IF seed # None THEN state ELSE r

\* the loop condition of line 382 fails: lines 406-421
Finish ==
    /\ pc = "neg"
    /\ ~(nb_added < nb_max)
    /\ CanDraw(rng, Len(pairs) - 1)
    /\ \E js \in ShuffleChoices(Len(pairs)) :
         LET n == Len(pairs)
             ds == [t \in 1..(n - 1) |-> <<n - t + 1, js[t]>>]
         IN  /\ pairs' = ApplyShuffle(pairs, js, 1)
             /\ tape' = Record(ds)
             /\ rng' = Restore(Advance(rng, Len(ds)))
    /\ printed' = printed + (IF verbose THEN VerboseLinesAfter ELSE 0)
    /\ pc' = "done"
    /\ first' = IF seed # None /\ ~first.set
                THEN [set |-> TRUE, pairs |-> pairs', verbose |-> verbose,
                      rng_before |-> rng_before]
                ELSE first
    /\ UNCHANGED <<Scenario, seed, verbose, state, added, nb_added, rng_before>>
    /\ UNCHANGED <<loader_vars, resume_vars, xy_vars>>

\* the caller goes on after a call and takes an output of the process-global
\* generator
CallerDraw ==
    /\ pc \in {"idle", "done", "raised"}
    /\ CanDraw(rng, 1)
    /\ pc' = "idle"
    /\ rng' = Advance(rng, 1)
    /\ tape' = Record(<<<<1, 1>>>>)
    /\ UNCHANGED <<Scenario, seed, verbose, state, pairs, added, nb_added,
                   rng_before, first, printed>>
    /\ UNCHANGED <<loader_vars, resume_vars, xy_vars>>

\* ---------------------------------------------------------------- saveload
RECURSIVE Split(_, _)
\* s.split(c)
Split(s, c) ==
    IF \E i \in 1..Len(s) : s[i] = c
    THEN LET i == CHOOSE k \in 1..Len(s) : s[k] = c /\ \A j \in 1..(k - 1) : s[j] # c
         IN  <<SubSeq(s, 1, i - 1)>> \o Split(SubSeq(s, i + 1, Len(s)), c)
    ELSE <<s>>

DigitChar(d) ==
    CASE d = 0 -> "0" [] d = 1 -> "1" [] d = 2 -> "2" [] d = 3 -> "3"
      [] d = 4 -> "4" [] d = 5 -> "5" [] d = 6 -> "6" [] d = 7 -> "7"
      [] d = 8 -> "8" [] d = 9 -> "9"

RECURSIVE IntToStr(_)
\* "{}".format(n) of an integer n >= 0
IntToStr(n) ==
    IF n < 10 THEN <<DigitChar(n)>>
    ELSE IntToStr(n \div 10) \o <<DigitChar(n % 10)>>

DotWeights == <<".", "w", "e", "i", "g", "h", "t", "s">>
DotLastWeights == <<".", "l", "a", "s", "t">> \o DotWeights
WeightsDir == <<"w">>

\* a faulty filter: the identifier is not compared
MatchingFilesAnyPrefix(ls, identifier) ==
    {f[1] : f \in {g \in ls : g[2] /\ endswith(g[1], DotWeights)}}

\* lines 78-82
MatchingFiles(ls, identifier) ==
    {f[1] : f \in {g \in ls : /\ g[2]
                              /\ startswith(g[1], identifier \o <<".">>)
                              /\ endswith(g[1], DotWeights)}}

\* a faulty filenames_last: no file is taken for a last file
LastFilesNone(filenames) == {}

\* line 86
LastFiles(filenames) == {f \in filenames : endswith(f, DotLastWeights)}

\* line 101, per file: the digits of the second segment of the name
EpochDigits(f) == StripNonDigits(Split(f, ".")[2])

MaxOf(S) == CHOOSE x \in S : \A y \in S : y <= x

\* line 104
EpochFileName(identifier, epoch) ==
    identifier \o <<".", "a", "t">> \o IntToStr(epoch) \o DotWeights

NoResult == [found |-> FALSE, marker |-> "none", epoch |-> 0]

\* load_weights(model, save_weights_dir, previous_identifier)
LoadWeights ==
    /\ lw_pc = "idle"
    /\ LET filenames == MatchingFiles(listing, previous_identifier)
           filenames_last == LastFiles(filenames)
       IN  IF filenames = {}
           THEN /\ lw_pc' = "returned"
                /\ lw_result' = [found |-> FALSE, marker |-> "epoch", epoch |-> -1]
                /\ loaded' = loaded
           ELSE IF Cardinality(filenames_last) >= 2
           THEN \* the exception of lines 88-89
                /\ lw_pc' = "raised"
                /\ UNCHANGED <<lw_result, loaded>>
           ELSE IF Cardinality(filenames_last) = 1
           THEN /\ lw_pc' = "returned"
                /\ lw_result' = [found |-> TRUE, marker |-> "last", epoch |-> 0]
                /\ loaded' = Append(loaded,
                       PathJoin(WeightsDir, CHOOSE f \in filenames_last : TRUE))
           ELSE IF \E f \in filenames : EpochDigits(f) = <<>>
           THEN \* int("") raises ValueError
                /\ lw_pc' = "value_error"
                /\ UNCHANGED <<lw_result, loaded>>
           ELSE LET epochs == {ToInt(EpochDigits(f)) : f \in filenames}
                    fname == EpochFileName(previous_identifier, MaxOf(epochs))
                IN  /\ lw_pc' = "returned"
                    /\ lw_result' = [found |-> TRUE, marker |-> "epoch",
                                     epoch |-> MaxOf(epochs)]
                    /\ loaded' = Append(loaded, PathJoin(WeightsDir, fname))
    /\ UNCHANGED <<listing, previous_identifier>>
    /\ UNCHANGED <<sampler_vars, xy_vars>>

IdM == <<"m">>
IdMV == <<"m", ".", "v">>
Identifiers == {IdM, IdMV}

\* what the weights directory may hold: <<name, is a file>>
Entries ==
    { <<IdM \o <<".", "a", "t", "3">> \o DotWeights, TRUE>>,
      <<IdM \o <<".", "a", "t", "2", "0">> \o DotWeights, TRUE>>,
      <<IdM \o DotLastWeights, TRUE>>,
      <<<<"m", "m", ".", "a", "t", "5", "0">> \o DotWeights, TRUE>>,
      <<IdMV \o <<".", "a", "t", "7">> \o DotWeights, TRUE>>,
      <<IdMV \o DotLastWeights, TRUE>>,
      <<IdM \o <<".", "a", "t", "9", "0", ".", "t", "x", "t">>, TRUE>>,
      <<IdM \o <<".", "a", "t", "9", "9">> \o DotWeights, FALSE>> }

LoaderIdle ==
    /\ lw_pc = "idle"
    /\ lw_result = NoResult
    /\ loaded = <<>>

\* ------------------------------------------------------ load_previous_model
\* the epochs a row of the history file may carry
CsvEpochs == {3, 20, 25}

RECURSIVE Ascending(_)
\* the elements of a set of numbers in increasing order
Ascending(S) ==
    IF S = {} THEN <<>>
    ELSE LET m == CHOOSE x \in S : \A z \in S : x <= z
         IN  <<m>> \o Ascending(S \ {m})

NoHistory == [loaded |-> FALSE, epochs |-> <<>>]

\* History.load_from_file(filepath, last_epoch): the rows at or before
\* last_epoch, in file order; every row when the weights were a 'last' file
LoadFromFile(rows, result) ==
    [loaded |-> TRUE,
     epochs |-> IF result.marker = "last" THEN rows
                ELSE SelectSeq(rows, LAMBDA e : e <= result.epoch)]

\* a faulty replay: the plotter redraws at every row
AddValuesRedraw(h, i) == [epoch |-> h.epochs[i], redraw |-> TRUE]

\* lines 46-51: the i-th call of la_plotter.add_values
AddValues(h, i) == [epoch |-> h.epochs[i], redraw |-> FALSE]

NoReturn == [epoch |-> -1, history |-> NoHistory]

\* lines 33-37: load_weights is called; its exception passes through, and
\* success = False raises
LpmLoadWeights ==
    /\ lpm_pc = "idle"
    /\ LoadWeights
    /\ lpm_pc' = IF lw_pc' # "returned" THEN "propagated"
                 ELSE IF ~lw_result'.found THEN "raised"
                 ELSE "history"
    /\ UNCHANGED <<csv_epochs, history, plotted, lpm_result>>

\* lines 40-42
LpmLoadHistory ==
    /\ lpm_pc = "history"
    /\ history' = LoadFromFile(csv_epochs, lw_result)
    /\ lpm_pc' = "plot"
    /\ UNCHANGED <<csv_epochs, plotted, lpm_result>>
    /\ UNCHANGED <<sampler_vars, loader_vars, xy_vars>>

\* lines 45-51: one iteration of the loop over history.epochs
LpmAddValues ==
    /\ lpm_pc = "plot"
    /\ Len(plotted) < Len(history.epochs)
    /\ plotted' = Append(plotted, AddValues(history, Len(plotted) + 1))
    /\ UNCHANGED <<csv_epochs, lpm_pc, history, lpm_result>>
    /\ UNCHANGED <<sampler_vars, loader_vars, xy_vars>>

\* line 53: history.epochs[-1] raises IndexError on an empty history
LpmReturn ==
    /\ lpm_pc = "plot"
    /\ Len(plotted) = Len(history.epochs)
    /\ IF history.epochs = <<>>
       THEN /\ lpm_pc' = "index_error"
            /\ UNCHANGED lpm_result
       ELSE /\ lpm_pc' = "returned"
            /\ lpm_result' = [epoch |-> history.epochs[Len(history.epochs)],
                              history |-> history]
    /\ UNCHANGED <<csv_epochs, history, plotted>>
    /\ UNCHANGED <<sampler_vars, loader_vars, xy_vars>>

NoResume ==
    /\ csv_epochs = <<>>
    /\ lpm_pc = "idle"
    /\ history = NoHistory
    /\ plotted = <<>>
    /\ lpm_result = NoReturn

\* ------------------------------------------------------- image_pairs_to_xy
Y_SAME == 1
Y_DIFFERENT == 0
IMAGE_CHANNELS == 1

\* a value stored in an array of dtype float32
Float32(v) == [dtype |-> "float32", value |-> v]

\* ImageFile.get_content: the pixels read from the file, with their channels
get_content(image) == [pixels_of |-> image.filepath, channels |-> IMAGE_CHANNELS]

\* ImagePair.get_contents: the contents of both images
get_contents(pair) == <<get_content(pair.image1), get_content(pair.image2)>>

\* a faulty label: the two constants exchanged
LabelSwapped(pair) == Float32(IF pair.same_person THEN Y_DIFFERENT ELSE Y_SAME)

\* line 441
Label(pair) == Float32(IF pair.same_person THEN Y_SAME ELSE Y_DIFFERENT)

\* image_pairs_to_xy(image_pairs, height, width)
ImagePairsToXY ==
    /\ xy_pc = "idle"
    /\ xy_X' = [i \in 1..Len(image_pairs) |-> get_contents(image_pairs[i])]
    /\ xy_y' = [i \in 1..Len(image_pairs) |-> Label(image_pairs[i])]
    /\ xy_pc' = "returned"
    /\ UNCHANGED image_pairs
    /\ UNCHANGED <<sampler_vars, loader_vars, resume_vars>>

NoXY ==
    /\ image_pairs = <<>>
    /\ xy_pc = "idle"
    /\ xy_X = <<>>
    /\ xy_y = <<>>

\* the pairs that can be made of the images of the first dataset
PairsOfDataset ==
    {ImagePair(ImagesOf[1][a], ImagesOf[1][b]) :
        a \in 1..Len(ImagesOf[1]), b \in 1..Len(ImagesOf[1])}

SeqsUpTo(S, n) == UNION {[1..k -> S] : k \in 0..n}

\* ------------------------------------------------------------ specifications
\* no call was made yet
InitCall ==
    /\ seed = None
    /\ verbose = FALSE
    /\ pc = "idle"
    /\ rng = [stream |-> Global, pos |-> 0]
    /\ state = Unset
    /\ tape = <<>>
    /\ pairs = <<>>
    /\ added = {}
    /\ nb_added = 0
    /\ rng_before = rng
    /\ first = [set |-> FALSE, pairs |-> <<>>, verbose |-> FALSE,
                rng_before |-> rng]
    /\ printed = 0

NoWeights ==
    /\ listing = {}
    /\ previous_identifier = IdM
    /\ LoaderIdle

InitSampler ==
    /\ dataset \in DOMAIN DatasetList
    /\ nb_max \in DatasetList[dataset].nbs
    /\ pairs_of_same_imgs \in BOOLEAN
    /\ ignore_order \in BOOLEAN
    /\ InitCall
    /\ NoWeights
    /\ NoResume
    /\ NoXY

\* a weights directory and an identifier; no dataset is sampled
InitLoad ==
    /\ listing \in SUBSET Entries
    /\ previous_identifier \in Identifiers
    /\ LoaderIdle
    /\ dataset = 1
    /\ nb_max = 0
    /\ pairs_of_same_imgs = FALSE
    /\ ignore_order = TRUE
    /\ InitCall
    /\ NoResume
    /\ NoXY

InitSeed ==
    /\ dataset \in DOMAIN DatasetList
    /\ nb_max \in DatasetList[dataset].nbs \cap 0..MaxNbSeed
    /\ pairs_of_same_imgs = FALSE
    /\ ignore_order \in BOOLEAN
    /\ InitCall
    /\ NoWeights
    /\ NoResume
    /\ NoXY

Init == InitSampler

Sampling == PosIter \/ PosRaise \/ PosDone \/ NegIter \/ NegRaise \/ Finish

Next == CallUnseeded \/ Sampling

Spec == Init /\ [][Next]_vars

NextSeed == CallSeeded \/ CallerDraw \/ Sampling

SpecSeed == InitSeed /\ [][NextSeed]_vars

NextLoad == LoadWeights /\ UNCHANGED resume_vars

SpecLoad == InitLoad /\ [][NextLoad]_vars

\* a weights directory, an identifier and a history file
InitResume ==
    /\ listing \in SUBSET Entries
    /\ previous_identifier \in Identifiers
    /\ LoaderIdle
    /\ csv_epochs \in {Ascending(S) : S \in SUBSET CsvEpochs}
    /\ lpm_pc = "idle"
    /\ history = NoHistory
    /\ plotted = <<>>
    /\ lpm_result = NoReturn
    /\ dataset = 1
    /\ nb_max = 0
    /\ pairs_of_same_imgs = FALSE
    /\ ignore_order = TRUE
    /\ InitCall
    /\ NoXY

NextResume == LpmLoadWeights \/ LpmLoadHistory \/ LpmAddValues \/ LpmReturn

SpecResume == InitResume /\ [][NextResume]_vars

\* a list of at most MaxPairs pairs
InitXY ==
    /\ image_pairs \in SeqsUpTo(PairsOfDataset, MaxPairs)
    /\ xy_pc = "idle"
    /\ xy_X = <<>>
    /\ xy_y = <<>>
    /\ dataset = 1
    /\ nb_max = 0
    /\ pairs_of_same_imgs = FALSE
    /\ ignore_order = TRUE
    /\ InitCall
    /\ NoWeights
    /\ NoResume

NextXY == ImagePairsToXY

SpecXY == InitXY /\ [][NextXY]_vars

\* the running call keeps executing
FairSpec == Init /\ [][Next]_vars /\ WF_vars(Sampling)

InitLive ==
    /\ dataset \in DOMAIN DatasetList
    /\ nb_max \in DatasetList[dataset].nbs \cap 0..MaxNbLive
    /\ pairs_of_same_imgs \in BOOLEAN
    /\ ignore_order \in BOOLEAN
    /\ InitCall
    /\ NoWeights
    /\ NoResume
    /\ NoXY

\* fair random choice: the running call keeps executing, and while the draws
\* of an iteration can produce a pair the loop accepts, such draws are
\* eventually made
FairDrawSpec ==
    /\ InitLive /\ [][Next]_vars
    /\ WF_vars(Sampling)
    /\ WF_vars(PosIter /\ nb_added' = nb_added + 1)
    /\ WF_vars(NegIter /\ nb_added' = nb_added + 1)

\* ------------------------------------------------------------------ claims
Returned == pc = "done"

FilepathsOf(p) == <<p.image1.filepath, p.image2.filepath>>

\* C1: no two pairs of the list built by one call have the same two filepaths:
\* as an unordered pair when ignore_order is set, as an ordered pair otherwise.
C1_NoDuplicatePairs ==
    \A i, j \in 1..Len(pairs) :
        i < j =>
            IF ignore_order
            THEN Range(FilepathsOf(pairs[i])) # Range(FilepathsOf(pairs[j]))
            ELSE FilepathsOf(pairs[i]) # FilepathsOf(pairs[j])

C1_Witness ==
    /\ Returned /\ ignore_order /\ pairs_of_same_imgs /\ Len(pairs) = 4
    /\ \E i \in 1..Len(pairs) : pairs[i].same_image

SamePersonCount == Cardinality({i \in 1..Len(pairs) : pairs[i].same_person})

\* C2: a call that returns returns exactly nb_max pairs, nb_max // 2 of them
\* of the same person and the others of different persons.
C2_ExactCounts ==
    Returned =>
        /\ Len(pairs) = nb_max
        /\ SamePersonCount = nb_max \div 2
        /\ Cardinality({i \in 1..Len(pairs) : ~pairs[i].same_person})
              = nb_max - (nb_max \div 2)

\* the example of the specification: two images of one person, one of another
C2_Witness ==
    /\ Returned /\ dataset = 1 /\ nb_max = 2 /\ ~pairs_of_same_imgs
    /\ \E i, j \in 1..2 :
         /\ pairs[i].same_person /\ ~pairs[i].same_image
         /\ ~pairs[j].same_person

\* C3: in every pair of the list, while it is built and after the shuffle,
\* same_person says that the person names derived from the two file paths
\* are equal and same_image says that the two file paths are equal.
C3_FlagsFollowRecords ==
    \A i \in 1..Len(pairs) :
        LET p == pairs[i]
        IN  /\ p.same_person <=>
                 filepath_to_person_name(p.image1.filepath)
                    = filepath_to_person_name(p.image2.filepath)
            /\ p.same_image <=> p.image1.filepath = p.image2.filepath

C3_Witness ==
    /\ Returned
    /\ \E i, j, k \in 1..Len(pairs) :
         /\ pairs[i].same_person /\ pairs[i].same_image
         /\ pairs[j].same_person /\ ~pairs[j].same_image
         /\ ~pairs[k].same_person /\ ~pairs[k].same_image

ExcludedPaths ==
    {exclude_images[i].image1.filepath : i \in 1..Len(exclude_images)}
        \cup {exclude_images[i].image2.filepath : i \in 1..Len(exclude_images)}

\* the image files of a person below the dataset directory that are not excluded
KeptImagesOf(person) ==
    {f \in files : /\ IsImageName(f[2])
                   /\ PathJoin(f[1], f[2]) \notin ExcludedPaths
                   /\ filepath_to_person_name(PathJoin(f[1], f[2])) = person}

\* C4: no image of an excluded pair is an image of a pair of the list, and a
\* same-person pair is only made of a person with two images that are not
\* excluded.
C4_ExcludedNeverReturned ==
    \A i \in 1..Len(pairs) :
        /\ pairs[i].image1.filepath \notin ExcludedPaths
        /\ pairs[i].image2.filepath \notin ExcludedPaths
        /\ pairs[i].same_person =>
              Cardinality(KeptImagesOf(pairs[i].image1.person)) >= 2

\* the excluded image is in the directory, and pairs of both kinds came back
C4_Witness ==
    /\ Returned /\ dataset = 2 /\ Len(pairs) = 2
    /\ \E f \in files : PathJoin(f[1], f[2]) \in ExcludedPaths

\* C5: a seeded call that returns leaves the generator in the state it had
\* when the call was made.
C5_SeededCallRestoresGenerator ==
    (Returned /\ seed # None) => rng = rng_before

\* a seeded call returned after a rejected draw, with a generator that had
\* been used before the call
C5_Witness ==
    /\ Returned /\ seed # None /\ nb_max = 3 /\ Len(tape) = 17
    /\ rng_before.pos # 0

\* C6: every seeded call that returns returns the list the first seeded call
\* returned (same seed, same inputs), whatever the generator state before the
\* call and whatever verbose.
C6_SeededCallsAgree ==
    (Returned /\ seed # None) => (first.set /\ pairs = first.pairs)

\* a later seeded call with the other verbose setting and another generator
\* state before it
C6_Witness ==
    /\ Returned /\ seed # None /\ first.set
    /\ verbose # first.verbose
    /\ rng_before # first.rng_before
    /\ Len(pairs) = 3

\* the keys the positive and the negative phase can produce from the pool
PosKeys ==
    {get_key(ImagePair(images_by_person[names_gte2[n]][a],
                       images_by_person[names_gte2[n]][b]), ignore_order) :
        <<n, a, b>> \in
            {t \in (1..Len(names_gte2)) \X (1..4) \X (1..4) :
                /\ t[2] <= Len(images_by_person[names_gte2[t[1]]])
                /\ t[3] <= Len(images_by_person[names_gte2[t[1]]])
                /\ (pairs_of_same_imgs \/ t[2] # t[3])}}

NegKeys ==
    {get_key(ImagePair(images_by_person[names[t[1]]][t[3]],
                       images_by_person[names[t[2]]][t[4]]), ignore_order) :
        t \in {u \in (1..Len(names)) \X (1..Len(names)) \X (1..4) \X (1..4) :
                /\ u[1] # u[2]
                /\ u[3] <= Len(images_by_person[names[u[1]]])
                /\ u[4] <= Len(images_by_person[names[u[2]]])}}

\* the number of distinct pairs obtainable from the pool
Obtainable == Cardinality(PosKeys \cup NegKeys)

TooMany == dataset_exists /\ nb_max > Obtainable

C8_ReturnsFewerPairs ==
    (TooMany /\ pc = "pos") ~> (Returned /\ Len(pairs) < nb_max)

\* the files of the weights directory that match the identifier
Matching == MatchingFiles(listing, previous_identifier)

LastMatching == {f \in Matching : endswith(f, DotLastWeights)}

\* the epoch number a weights file carries: the digits of the segment before
\* ".weights"
EpochOfName(f) ==
    LET segs == Split(f, ".")
    IN  ToInt(StripNonDigits(segs[Len(segs) - 1]))

\* C9: with matching files and no 'last' file among them, load_weights
\* returns (True, e) for the highest epoch e of the matching files, after
\* handing model.load_weights the path of a file of the directory that
\* carries epoch e.
C9_LoadsHighestEpoch ==
    (lw_pc # "idle" /\ Matching # {} /\ LastMatching = {}) =>
        /\ lw_pc = "returned"
        /\ lw_result.found /\ lw_result.marker = "epoch"
        /\ \A g \in Matching : EpochOfName(g) <= lw_result.epoch
        /\ \E f \in Matching :
             /\ EpochOfName(f) = lw_result.epoch
             /\ loaded = <<PathJoin(WeightsDir, f)>>

\* C10: with exactly one matching 'last' file, load_weights hands that file
\* to model.load_weights and returns (True, "last"), whatever other files
\* match; it returns an epoch only when no 'last' file matches.
C10_LastFileWins ==
    /\ (lw_pc # "idle" /\ Cardinality(LastMatching) = 1) =>
          /\ lw_pc = "returned"
          /\ lw_result.found /\ lw_result.marker = "last"
          /\ \E f \in LastMatching : loaded = <<PathJoin(WeightsDir, f)>>
    /\ (lw_pc = "returned" /\ lw_result.found /\ lw_result.marker = "epoch") =>
          LastMatching = {}

\* one 'last' file next to two epoch-numbered files of the same identifier
C10_Witness ==
    /\ lw_pc = "returned" /\ lw_result.marker = "last"
    /\ Cardinality(LastMatching) = 1
    /\ Cardinality(Matching \ LastMatching) >= 2

\* the regular files of the directory named identifier.<...>.weights
FilesOfIdentifier ==
    {e[1] : e \in {g \in listing :
                     /\ g[2]
                     /\ startswith(g[1], previous_identifier \o <<".">>)
                     /\ endswith(g[1], DotWeights)}}

LastFilesOfIdentifier ==
    {f \in FilesOfIdentifier : endswith(f, DotLastWeights)}

\* C11: with no file matching the identifier load_weights returns found =
\* False and has not called model.load_weights; with two or more matching
\* files ending in ".last.weights" it raises the ambiguity error and has not
\* called model.load_weights; model.load_weights has been called only when
\* the call returned found = True.
C11_ErrorsLeaveModelUntouched ==
    lw_pc # "idle" =>
        /\ FilesOfIdentifier = {} =>
              /\ lw_pc = "returned" /\ ~lw_result.found
              /\ loaded = <<>>
        /\ Cardinality(LastFilesOfIdentifier) >= 2 =>
              /\ lw_pc = "raised"
              /\ loaded = <<>>
        /\ loaded # <<>> => (lw_pc = "returned" /\ lw_result.found)

\* two last files next to an epoch-numbered file, and the call has raised
C11_Witness ==
    /\ lw_pc = "raised"
    /\ Cardinality(LastFilesOfIdentifier) >= 2
    /\ FilesOfIdentifier # LastFilesOfIdentifier
    /\ loaded = <<>>

\* C12: load_previous_model resolves the weights first; when load_weights
\* reports not found it raises with no history loaded and no add_values
\* call; otherwise the add_values calls made so far are the first rows of the
\* loaded history, in order, each with redraw = False, and it returns the
\* last history epoch and the history only after one call per row.
C12_ResumeOrder ==
    /\ lpm_pc = "raised" =>
          /\ lw_pc = "returned" /\ ~lw_result.found
          /\ ~history.loaded /\ plotted = <<>>
    /\ history.loaded => (lw_pc = "returned" /\ lw_result.found)
    /\ plotted # <<>> => history.loaded
    /\ Len(plotted) <= Len(history.epochs)
    /\ \A i \in 1..Len(plotted) :
          plotted[i] = [epoch |-> history.epochs[i], redraw |-> FALSE]
    /\ lpm_pc = "returned" =>
          /\ Len(plotted) = Len(history.epochs)
          /\ lpm_result.epoch = history.epochs[Len(history.epochs)]
          /\ lpm_result.history = history

\* the highest epoch file was resolved, the history file had a later row that
\* was cut off, and two rows were replayed before the return
C12_Witness ==
    /\ lpm_pc = "returned" /\ lw_result.marker = "epoch"
    /\ Len(plotted) = 2
    /\ Len(csv_epochs) > Len(history.epochs)

\* C13: image_pairs_to_xy returns one label per pair, in the order of the
\* pairs, 1.0 for a pair of the same person and 0.0 otherwise, and leaves the
\* list of pairs as it was.
C13_LabelsFollowPairs ==
    /\ [](xy_pc = "returned" =>
            /\ DOMAIN xy_y = 1..Len(image_pairs)
            /\ DOMAIN xy_X = 1..Len(image_pairs)
            /\ \A i \in 1..Len(image_pairs) :
                  /\ xy_y[i] \in {Float32(0), Float32(1)}
                  /\ xy_y[i] = Float32(1) <=> image_pairs[i].same_person)
    /\ [][image_pairs' = image_pairs]_vars

\* three pairs, the first of two persons and the others of one person
C13_Witness ==
    /\ xy_pc = "returned" /\ Len(image_pairs) = 3
    /\ ~image_pairs[1].same_person
    /\ image_pairs[2].same_person /\ image_pairs[3].same_person
    /\ image_pairs[2] # image_pairs[3]

\* C14: a pair of one and the same file is in the list only when
\* pairs_of_same_imgs is set, and only as a pair of one person; a pair of two
\* persons has two different filepaths.
C14_SameImageOnlyWhenAllowed ==
    \A i \in 1..Len(pairs) :
        LET p == pairs[i]
        IN  /\ p.image1.filepath = p.image2.filepath =>
                  (pairs_of_same_imgs /\ p.same_person)
            /\ p.same_image => pairs_of_same_imgs
            /\ ~p.same_person => p.image1.filepath # p.image2.filepath

\* self-pairs are not allowed and both orders of the two images of one person
\* came back
C14_Witness ==
    /\ Returned /\ ~pairs_of_same_imgs /\ ~ignore_order /\ nb_max = 4
    /\ SamePersonCount = 2

\* C15: a seeded call that has failed has left the generator in the state it
\* had before the call.
C15_FailedSeededCallRestores ==
    (pc = "raised" /\ seed # None) => rng = rng_before

\* the pool offers enough keys for both phases
Feasible ==
    /\ dataset_exists
    /\ Cardinality(PosKeys) >= nb_max \div 2
    /\ Cardinality(NegKeys) >= nb_max - (nb_max \div 2)

\* C16: under fair random choice, a call on a pool that offers nb_max // 2
\* same-person keys and nb_max - nb_max // 2 different-person keys returns;
\* and in the negative phase the different-person keys among the added keys
\* are exactly those the negative phase added.
C16_FeasibleCallReturns ==
    /\ (Feasible /\ pc = "pos") ~> Returned
    /\ [](pc = "neg" =>
            Cardinality(added \cap NegKeys) = nb_added - (nb_max \div 2))
    /\ [](PosKeys \cap NegKeys = {})

\* the call returned every pair the pool offers
C16_Witness ==
    /\ Returned /\ Feasible /\ nb_max = 3
    /\ Cardinality(PosKeys) = 1 /\ Cardinality(NegKeys) = 2

====
